---------------------------- MODULE Spec2Model ----------------------------
(***************************************************************************)
(* The Urdu text-to-phoneme pipeline: the normalizer (normalize.py), the   *)
(* three-tier phonemizer with its process-wide custom dictionary           *)
(* (phonemizer.py) and the UrduPhonemizer facade (urdu_phonemizer.py).     *)
(*                                                                         *)
(* A string is a sequence of characters.  An ASCII character stands for    *)
(* itself ("a", "!", " "); every other code point is written as its        *)
(* Unicode name without the script prefix ("ALEF" is U+0627 ARABIC LETTER  *)
(* ALEF, "FULL_STOP" is U+06D4 ARABIC FULL STOP, "ALPHA" is U+0251, "N_"   *)
(* is U+207F SUPERSCRIPT LATIN SMALL LETTER N).                            *)
(***************************************************************************)
EXTENDS Integers, Sequences, FiniteSets, TLC

(***************************************************************************)
(* Tables of the source                                                    *)
(***************************************************************************)

\* normalize.py URDU_NUMBER_MAP: Urdu-Indic digit -> Latin digit
URDU_NUMBER_MAP ==
       "URDU_DIGIT_ZERO" :> "0"
    @@ "URDU_DIGIT_ONE" :> "1"
    @@ "URDU_DIGIT_TWO" :> "2"
    @@ "URDU_DIGIT_THREE" :> "3"
    @@ "URDU_DIGIT_FOUR" :> "4"
    @@ "URDU_DIGIT_FIVE" :> "5"
    @@ "URDU_DIGIT_SIX" :> "6"
    @@ "URDU_DIGIT_SEVEN" :> "7"
    @@ "URDU_DIGIT_EIGHT" :> "8"
    @@ "URDU_DIGIT_NINE" :> "9"

\* the order in which normalize_numbers walks URDU_NUMBER_MAP
URDU_NUMBER_ORDER == <<"URDU_DIGIT_ZERO", "URDU_DIGIT_ONE", "URDU_DIGIT_TWO", "URDU_DIGIT_THREE", "URDU_DIGIT_FOUR", "URDU_DIGIT_FIVE", "URDU_DIGIT_SIX", "URDU_DIGIT_SEVEN", "URDU_DIGIT_EIGHT", "URDU_DIGIT_NINE">>

\* normalize.py URDU_ABBREVIATIONS: abbreviation -> expansion
URDU_ABBREVIATIONS ==
       <<"DDAL", "ALEF", "KEHEH", "TTEH", "REH">> :> <<"DDAL", "ALEF", "KEHEH", "TTEH", "REH">>
    @@ <<"PEH", "REH", "WAW", "FEH", "FARSI_YEH", "SEEN", "REH">> :> <<"PEH", "REH", "WAW", "FEH", "FARSI_YEH", "SEEN", "REH">>
    @@ <<"JEEM", "NOON", "ALEF", "BEH">> :> <<"JEEM", "NOON", "ALEF", "BEH">>
    @@ <<"MEEM", "HAH", "TEH", "REH", "MEEM">> :> <<"MEEM", "HAH", "TEH", "REH", "MEEM">>
    @@ <<"SAD", "ALEF", "HAH", "BEH">> :> <<"SAD", "ALEF", "HAH", "BEH">>
    @@ <<"BEH", "FARSI_YEH", "GAF", "MEEM">> :> <<"BEH", "FARSI_YEH", "GAF", "MEEM">>
    @@ <<"MEEM", "SEEN", "TTEH", "REH">> :> <<"MEEM", "SEEN", "TTEH", "REH">>
    @@ <<"MEEM", "SEEN">> :> <<"MEEM", "SEEN">>

\* normalize_diacritics: the marks removed when remove_diacritics is set
diacritics == <<"FATHA", "KASRA", "DAMMA", "FATHATAN", "KASRATAN", "DAMMATAN", "SUKUN", "SHADDA">>

\* normalize_character_variants: the (old, new) pairs in replacement order
replacements == <<<<"KAF", "KEHEH">>, <<"YEH", "FARSI_YEH">>, <<"HAMZA", "HAMZA_ABOVE">>, <<"ALEF_WITH_HAMZA_ABOVE", "ALEF">>, <<"ALEF_WITH_HAMZA_BELOW", "ALEF">>, <<"ALEF_WITH_MADDA_ABOVE", "ALEF_WITH_MADDA_ABOVE">>>>

\* _urdu_rule_based_phonemize: the grapheme table, keys of one or two characters
\* (a key written twice in the literal keeps its last value: WAW, FARSI_YEH, THEH)
urdu_to_ipa ==
       <<"ALEF">> :> <<"ALPHA">>
    @@ <<"ALEF_WITH_MADDA_ABOVE">> :> <<"ALPHA", "TRIANGULAR_COLON">>
    @@ <<"ALEF", "FARSI_YEH">> :> <<"e", "TRIANGULAR_COLON">>
    @@ <<"ALEF", "WAW">> :> <<"o", "TRIANGULAR_COLON">>
    @@ <<"ALEF", "YEH_BARREE">> :> <<"e", "TRIANGULAR_COLON">>
    @@ <<"ALEF", "WAW_WITH_HAMZA_ABOVE">> :> <<"SCHWA", "UPSILON">>
    @@ <<"YEH_BARREE">> :> <<"e", "TRIANGULAR_COLON">>
    @@ <<"FARSI_YEH">> :> <<"j">>
    @@ <<"WAW">> :> <<"V_WITH_HOOK">>
    @@ <<"FATHA">> :> <<"a">>
    @@ <<"KASRA">> :> <<"i">>
    @@ <<"DAMMA">> :> <<"u">>
    @@ <<"FATHATAN">> :> <<"a", "N_">>
    @@ <<"KASRATAN">> :> <<"i", "N_">>
    @@ <<"DAMMATAN">> :> <<"u", "N_">>
    @@ <<"SUKUN">> :> <<>>
    @@ <<"SHADDA">> :> <<>>
    @@ <<"BEH">> :> <<"b">>
    @@ <<"PEH">> :> <<"p">>
    @@ <<"TEH">> :> <<"t", "BRIDGE_BELOW">>
    @@ <<"TTEH">> :> <<"T_WITH_RETROFLEX_HOOK">>
    @@ <<"THEH">> :> <<"s">>
    @@ <<"JEEM">> :> <<"d", "DOUBLE_INVERTED_BREVE", "EZH">>
    @@ <<"TCHEH">> :> <<"t", "DOUBLE_INVERTED_BREVE", "ESH">>
    @@ <<"DAL">> :> <<"d", "BRIDGE_BELOW">>
    @@ <<"DDAL">> :> <<"D_WITH_TAIL">>
    @@ <<"THAL">> :> <<"z">>
    @@ <<"KEHEH">> :> <<"k">>
    @@ <<"GAF">> :> <<"SCRIPT_G">>
    @@ <<"QAF">> :> <<"q">>
    @@ <<"FEH">> :> <<"f">>
    @@ <<"SEEN">> :> <<"s">>
    @@ <<"SAD">> :> <<"s">>
    @@ <<"SHEEN">> :> <<"ESH">>
    @@ <<"KHAH">> :> <<"x">>
    @@ <<"GHAIN">> :> <<"GAMMA">>
    @@ <<"HAH">> :> <<"H_WITH_HOOK">>
    @@ <<"HEH_GOAL">> :> <<"H_WITH_HOOK">>
    @@ <<"HEH_DOACHASHMEE">> :> <<"SMALL_H">>
    @@ <<"AIN">> :> <<"GLOTTAL_STOP">>
    @@ <<"ZAIN">> :> <<"z">>
    @@ <<"JEH">> :> <<"EZH">>
    @@ <<"DAD">> :> <<"z">>
    @@ <<"TAH">> :> <<"t", "BRIDGE_BELOW">>
    @@ <<"ZAH">> :> <<"z">>
    @@ <<"MEEM">> :> <<"m">>
    @@ <<"NOON">> :> <<"n">>
    @@ <<"NOON_GHUNNA">> :> <<"TURNED_M_WITH_LONG_LEG", "TILDE">>
    @@ <<"LAM">> :> <<"l">>
    @@ <<"REH">> :> <<"r">>
    @@ <<"RREH">> :> <<"R_WITH_TAIL">>
    @@ <<"URDU_DIGIT_ZERO">> :> <<"s", "SMALL_CAPITAL_I", "f", "r">>
    @@ <<"URDU_DIGIT_ONE">> :> <<"e", "k">>
    @@ <<"URDU_DIGIT_TWO">> :> <<"d", "BRIDGE_BELOW", "o", "TRIANGULAR_COLON">>
    @@ <<"URDU_DIGIT_THREE">> :> <<"t", "BRIDGE_BELOW", "i", "TRIANGULAR_COLON", "n">>
    @@ <<"URDU_DIGIT_FOUR">> :> <<"t", "DOUBLE_INVERTED_BREVE", "ESH", "a", "TRIANGULAR_COLON", "r">>
    @@ <<"URDU_DIGIT_FIVE">> :> <<"p", "a", "TRIANGULAR_COLON", "n", "t", "DOUBLE_INVERTED_BREVE", "ESH">>
    @@ <<"URDU_DIGIT_SIX">> :> <<"t", "DOUBLE_INVERTED_BREVE", "ESH", "SMALL_H", "e", "TRIANGULAR_COLON">>
    @@ <<"URDU_DIGIT_SEVEN">> :> <<"s", "a", "TRIANGULAR_COLON", "t", "BRIDGE_BELOW">>
    @@ <<"URDU_DIGIT_EIGHT">> :> <<"a", "TRIANGULAR_COLON", "T_WITH_RETROFLEX_HOOK", "SMALL_H">>
    @@ <<"URDU_DIGIT_NINE">> :> <<"n", "SCHWA", "UPSILON">>
    @@ <<"FULL_STOP">> :> <<".">>
    @@ <<"QUESTION_MARK">> :> <<"?">>
    @@ <<"COMMA">> :> <<",">>

\* the literal CUSTOM_PHONEME_DICT starts as
BUILTIN_PHONEME_DICT ==
       <<"ALEF", "LAM", "SEEN", "LAM", "ALEF", "MEEM", " ", "AIN", "LAM", "FARSI_YEH", "KEHEH", "MEEM">> :> <<"AE", "s", ".", "s", "AE", ".", "l", "AE", "TRIANGULAR_COLON", ".", "m", " ", "UPSILON", " ", "a", ".", "l", "OPEN_E", "SMALL_CAPITAL_I", ".", "k", "UPSILON", "m">>
    @@ <<"ALEF", "LAM", "SEEN", "LAM", "ALEF", "MEEM">> :> <<"SCHWA", "s", ".", "s", "ALPHA", "TRIANGULAR_COLON", ".", "l", "SCHWA", "m", "U">>
    @@ <<"AIN", "LAM", "FARSI_YEH", "KEHEH", "MEEM">> :> <<"a", ".", "l", "OPEN_E", "SMALL_CAPITAL_I", ".", "k", "UPSILON", "m">>
    @@ <<"SEEN", "REH", "WAW", "SEEN">> :> <<"s", "SCHWA", "r", "v", "SMALL_CAPITAL_I", "s">>
    @@ <<"LAM", "TAH", "FEH">> :> <<"l", "UPSILON", "t", "BRIDGE_BELOW", "f">>
    @@ <<"HEH_GOAL", "NOON", "SEEN", "FARSI_YEH">> :> <<"/", "h", "OPEN_E", "TILDE", "TRIANGULAR_COLON", ".", "s", "i", "TRIANGULAR_COLON", "/">>
    @@ <<"LAM", "FARSI_YEH", "NOON">> :> <<"l", "e", "TRIANGULAR_COLON", "n">>
    @@ <<"DAL", "FARSI_YEH", "NOON">> :> <<" ", "d", "e", "TRIANGULAR_COLON", "n">>
    @@ <<"KEHEH", "HEH_DOACHASHMEE", "LAM", "ALEF", "RREH", "FARSI_YEH">> :> <<"k", "SMALL_H", "SMALL_CAPITAL_I", ".", "l", "ALPHA", "TRIANGULAR_COLON", ".", "R_WITH_TAIL", "i", "TRIANGULAR_COLON">>
    @@ <<"SEEN", "NOON", "WAW", "ALEF", "REH", "TEH", "YEH_BARREE">> :> <<"s", "SCHWA", "TILDE", ".", "w", "ALPHA", "TRIANGULAR_COLON", "r", ".", "t", "BRIDGE_BELOW", "e", "TRIANGULAR_COLON">>
    @@ <<"ALEF", "SEEN", "KEHEH", "WAW", "LAM">> :> <<"SMALL_CAPITAL_I", "s", ".", "k", "u", "TRIANGULAR_COLON", "l">>
    @@ <<"KHAH", "WAW", "SHEEN">> :> <<"x", "UPSILON", "ESH">>
    @@ <<"KEHEH", "SEEN", "TTEH", "MEEM", "REH">> :> <<"k", "SCHWA", "s", ".", "t", "SCHWA", ".", "m", "SCHWA", "r">>
    @@ <<"FEH", "REH", "ALEF", "HEH_GOAL", "MEEM">> :> <<"f", "SCHWA", ".", "r", "ALPHA", "TRIANGULAR_COLON", ".", "h", "SCHWA", "m">>
    @@ <<"KEHEH", "HEH_DOACHASHMEE", "LAM", "ALEF", "RREH", "FARSI_YEH", "WAW", "NOON_GHUNNA">> :> <<"k", "SMALL_H", "SMALL_CAPITAL_I", ".", "l", "ALPHA", "TRIANGULAR_COLON", ".", "R_WITH_TAIL", "i", ".", "j", "O_WITH_TILDE", "TRIANGULAR_COLON">>
    @@ <<"MEEM", "FARSI_YEH", "TTEH", "NOON", "GAF">> :> <<"m", "i", "TRIANGULAR_COLON", ".", "T_WITH_RETROFLEX_HOOK", "SMALL_CAPITAL_I", "ENG">>

\* the ASCII characters of the model (str.isascii)
AsciiChars == {" ", "!", "(", ")", ",", ".", "/", "0", "1", "2", "3", "4", "5", "6", "7", "8", "9", "?", "A", "U", "_", "a", "b", "c", "d", "e", "f", "g", "h", "i", "j", "k", "l", "m", "n", "o", "p", "q", "r", "s", "t", "u", "v", "w", "x", "y", "z", "|", "\n", "\t"}

\* the characters of the model that the regex class \w matches (alphanumeric or underscore)
WordChars == {"0", "1", "2", "3", "4", "5", "6", "7", "8", "9", "A", "U", "_", "a", "b", "c", "d", "e", "f", "g", "h", "i", "j", "k", "l", "m", "n", "o", "p", "q", "r", "s", "t", "u", "v", "w", "x", "y", "z", "AE", "O_WITH_TILDE", "ENG", "ALPHA", "D_WITH_TAIL", "SCHWA", "OPEN_E", "SCRIPT_G", "GAMMA", "H_WITH_HOOK", "SMALL_CAPITAL_I", "TURNED_M_WITH_LONG_LEG", "R_WITH_TAIL", "ESH", "T_WITH_RETROFLEX_HOOK", "UPSILON", "V_WITH_HOOK", "EZH", "GLOTTAL_STOP", "SMALL_H", "TRIANGULAR_COLON", "HAMZA", "ALEF_WITH_MADDA_ABOVE", "ALEF_WITH_HAMZA_ABOVE", "WAW_WITH_HAMZA_ABOVE", "ALEF_WITH_HAMZA_BELOW", "ALEF", "BEH", "TEH", "THEH", "JEEM", "HAH", "KHAH", "DAL", "THAL", "REH", "ZAIN", "SEEN", "SHEEN", "SAD", "DAD", "TAH", "ZAH", "AIN", "GHAIN", "FEH", "QAF", "KAF", "LAM", "MEEM", "NOON", "WAW", "YEH", "TTEH", "PEH", "TCHEH", "DDAL", "RREH", "JEH", "KEHEH", "GAF", "NOON_GHUNNA", "HEH_DOACHASHMEE", "HEH_GOAL", "FARSI_YEH", "YEH_BARREE", "URDU_DIGIT_ZERO", "URDU_DIGIT_ONE", "URDU_DIGIT_TWO", "URDU_DIGIT_THREE", "URDU_DIGIT_FOUR", "URDU_DIGIT_FIVE", "URDU_DIGIT_SIX", "URDU_DIGIT_SEVEN", "URDU_DIGIT_EIGHT", "URDU_DIGIT_NINE", "N_"}

\* the characters of the model that are whitespace (str.isspace, regex \s)
SpaceChars == {" ", "\n", "\t"}

\* str.lower on the characters of the model: only the ASCII capitals change
LowerMap == "A" :> "a" @@ "U" :> "u"

(***************************************************************************)
(* Character classes and string primitives                                 *)
(***************************************************************************)

\* str.isspace / regex \s
IsSpace(c) == c \in SpaceChars

\* str.isascii
IsAscii(c) == c \in AsciiChars

\* regex \w
IsWordChar(c) == c \in WordChars

\* str.lower, one character
Lower(c) == IF c \in DOMAIN LowerMap THEN LowerMap[c] ELSE c

\* the terminal punctuation class [۔؟!،] of normalize.py
PunctChars == {"FULL_STOP", "QUESTION_MARK", "!", "COMMA"}

\* the sentence terminators preprocess_for_tts recognises: '۔؟!'
Terminators == {"FULL_STOP", "QUESTION_MARK", "!"}

RECURSIVE Replace(_, _, _)
\* s.replace(old, new) for a one-character old and a string new
Replace(s, old, new) ==
    IF s = <<>> THEN <<>>
    ELSE (IF Head(s) = old THEN new ELSE <<Head(s)>>) \o Replace(Tail(s), old, new)

RECURSIVE ReplaceEach(_, _, _)
\* the loop "for old, new in pairs: text = text.replace(old, new)", from pair k on
ReplaceEach(s, pairs, k) ==
    IF k > Len(pairs) THEN s
    ELSE ReplaceEach(Replace(s, pairs[k][1], pairs[k][2]), pairs, k + 1)

RECURSIVE DropLeading(_, _)
\* s without its longest prefix of characters of the set cs
DropLeading(s, cs) ==
    IF s # <<>> /\ Head(s) \in cs THEN DropLeading(Tail(s), cs) ELSE s

RECURSIVE DropTrailing(_, _)
\* s without its longest suffix of characters of the set cs
DropTrailing(s, cs) ==
    IF s # <<>> /\ s[Len(s)] \in cs THEN DropTrailing(SubSeq(s, 1, Len(s) - 1), cs) ELSE s

\* str.strip()
Strip(s) == DropTrailing(DropLeading(s, SpaceChars), SpaceChars)

RECURSIVE CollapseSpace(_)
\* re.sub(r'\s+', ' ', s)
CollapseSpace(s) ==
    IF s = <<>> THEN <<>>
    ELSE IF IsSpace(Head(s)) THEN <<" ">> \o CollapseSpace(DropLeading(s, SpaceChars))
    ELSE <<Head(s)>> \o CollapseSpace(Tail(s))

RECURSIVE CollapseRuns(_, _)
\* re.sub(r'([cs])\1+', r'\1', s): a run of two or more of one character of cs
\* becomes one
CollapseRuns(s, cs) ==
    IF s = <<>> THEN <<>>
    ELSE IF Head(s) \in cs
         THEN <<Head(s)>> \o CollapseRuns(DropLeading(Tail(s), {Head(s)}), cs)
    ELSE <<Head(s)>> \o CollapseRuns(Tail(s), cs)

RECURSIVE Split(_)
\* str.split(): the maximal runs of non-whitespace characters
Split(s) ==
    LET t == DropLeading(s, SpaceChars)
        rest == DropLeading(t, { t[k] : k \in 1..Len(t) } \ SpaceChars)
    IN  IF t = <<>> THEN <<>>
        ELSE <<SubSeq(t, 1, Len(t) - Len(rest))>> \o Split(rest)

RECURSIVE Join(_, _)
\* sep.join(parts)
Join(parts, sep) ==
    IF parts = <<>> THEN <<>>
    ELSE IF Len(parts) = 1 THEN parts[1]
    ELSE parts[1] \o sep \o Join(Tail(parts), sep)

\* list(s): the characters of s as one-character strings
Chars(s) == [k \in 1..Len(s) |-> <<s[k]>>]

\* re.sub(r'[cs]', '', s)
Remove(s, cs) == SelectSeq(s, LAMBDA c : c \notin cs)

(***************************************************************************)
(* normalize.py                                                            *)
(***************************************************************************)

\* normalize_numbers
normalize_numbers(text) ==
    ReplaceEach(text,
                [k \in 1..Len(URDU_NUMBER_ORDER) |->
                    <<URDU_NUMBER_ORDER[k], <<URDU_NUMBER_MAP[URDU_NUMBER_ORDER[k]]>> >>],
                1)

\* normalize_whitespace
normalize_whitespace(text) == Strip(CollapseSpace(text))

RECURSIVE SpaceAfterPunct(_)
\* re.sub(r'([۔؟!،])([^\s۔؟!،])', r'\1 \2', text), matches taken left to right
SpaceAfterPunct(s) ==
    IF s = <<>> THEN <<>>
    ELSE IF /\ Len(s) >= 2
            /\ s[1] \in PunctChars
            /\ ~IsSpace(s[2])
            /\ s[2] \notin PunctChars
         THEN <<s[1], " ", s[2]>> \o SpaceAfterPunct(SubSeq(s, 3, Len(s)))
    ELSE <<Head(s)>> \o SpaceAfterPunct(Tail(s))

RECURSIVE CollapsePairs(_, _)
\* re.sub(r'[c]{2}', c, s): each pair of c becomes one c
CollapsePairs(s, c) ==
    IF s = <<>> THEN <<>>
    ELSE IF Len(s) >= 2 /\ s[1] = c /\ s[2] = c
         THEN <<c>> \o CollapsePairs(SubSeq(s, 3, Len(s)), c)
    ELSE <<Head(s)>> \o CollapsePairs(Tail(s), c)

\* normalize_punctuation with the quantifier {2} in place of {2,}
normalize_punctuation_pairs(text) ==
    SpaceAfterPunct(
        CollapsePairs(CollapsePairs(CollapsePairs(text, "FULL_STOP"), "QUESTION_MARK"), "!"))

\* normalize_punctuation
normalize_punctuation(text) ==
    SpaceAfterPunct(
        CollapseRuns(CollapseRuns(CollapseRuns(text, {"FULL_STOP"}), {"QUESTION_MARK"}), {"!"}))

\* normalize_diacritics
normalize_diacritics(text, remove_diacritics) ==
    IF remove_diacritics
    THEN ReplaceEach(text, [k \in 1..Len(diacritics) |-> <<diacritics[k], <<>> >>], 1)
    ELSE text

\* normalize_character_variants
normalize_character_variants(text) ==
    ReplaceEach(text,
                [k \in 1..Len(replacements) |-> <<replacements[k][1], <<replacements[k][2]>> >>],
                1)

\* the body of the loop of expand_abbreviations, for one word
expand_word(word) ==
    LET clean_word == Remove(word, PunctChars)
        punctuation == SelectSeq(word, LAMBDA c : c \in PunctChars)
    IN  IF clean_word \in DOMAIN URDU_ABBREVIATIONS
        THEN URDU_ABBREVIATIONS[clean_word]
                \o (IF punctuation # <<>> THEN <<punctuation[1]>> ELSE <<>>)
        ELSE word

\* expand_abbreviations
expand_abbreviations(text) ==
    LET words == Split(text)
    IN  Join([k \in 1..Len(words) |-> expand_word(words[k])], <<" ">>)

\* normalize_urdu_text
normalize_urdu_text(text, remove_diacritics, expand_abbrev) ==
    IF text = <<>> THEN text
    ELSE LET t1 == normalize_character_variants(text)
             t2 == normalize_numbers(t1)
             t3 == normalize_diacritics(t2, remove_diacritics)
             t4 == normalize_punctuation(t3)
             t5 == IF expand_abbrev THEN expand_abbreviations(t4) ELSE t4
         IN  normalize_whitespace(t5)

\* preprocess_for_tts without the forced removal of diacritics
preprocess_for_tts_keeping_diacritics(text) ==
    LET t == normalize_urdu_text(text, FALSE, TRUE)
    IN  IF t # <<>> /\ t[Len(t)] \notin Terminators THEN Append(t, "FULL_STOP") ELSE t

\* preprocess_for_tts
preprocess_for_tts(text) ==
    LET t == normalize_urdu_text(text, TRUE, TRUE)
    IN  IF t # <<>> /\ t[Len(t)] \notin Terminators THEN Append(t, "FULL_STOP") ELSE t

(***************************************************************************)
(* phonemizer.py: the pure parts                                           *)
(***************************************************************************)

\* str.lower
LowerStr(s) == [k \in 1..Len(s) |-> Lower(s[k])]

\* the lookup key of urdu_text_to_phonemes: re.sub(r'[^\w\s]', '', word.lower())
clean_word_of(word) ==
    SelectSeq(LowerStr(word), LAMBDA c : IsWordChar(c) \/ IsSpace(c))

\* the key add_custom_phoneme stores under: word.lower()
add_key_of(word) == LowerStr(word)

\* DictPut that keeps the value a key already has: dict.setdefault(key, value)
DictPut_keep_first(dict, key, value) ==
    [k \in DOMAIN dict \cup {key} |-> IF k \in DOMAIN dict THEN dict[k] ELSE value]

\* dict[key] = value
DictPut(dict, key, value) ==
    [k \in DOMAIN dict \cup {key} |-> IF k = key THEN value ELSE dict[k]]

\* "c in s" for a character c
Contains(s, c) == \E k \in 1..Len(s) : s[k] = c

\* line_is_entry without the test for the delimiter: "if line"
line_is_entry_if_not_blank(line) == line # <<>>

\* load_custom_phonemes_from_file: "if line and '|' in line", on the stripped line
line_is_entry(line) == line # <<>> /\ Contains(line, "|")

\* line.split('|', 1): the parts before and after the first delimiter, the
\* whole line as the only part when it has none
split_entry(line) ==
    IF ~Contains(line, "|") THEN <<line>>
    ELSE LET k == CHOOSE k \in 1..Len(line) :
                      line[k] = "|" /\ \A j \in 1..(k - 1) : line[j] # "|"
         IN  <<SubSeq(line, 1, k - 1), SubSeq(line, k + 1, Len(line))>>

\* the key load_custom_phonemes_from_file stores under: word.lower().strip()
load_key_of(word) == Strip(LowerStr(word))

\* the phoneme load_custom_phonemes_from_file stores: phoneme.strip()
load_phoneme_of(phoneme) == Strip(phoneme)

\* load_custom_phonemes_from_file: "except FileNotFoundError"
load_caught(kind) == kind = "not_found"

\* the body of "for line in f" of load_custom_phonemes_from_file for one line
\* read from the file: what the dictionary is afterwards, the entry written
\* if one was, and whether the unpacking of the split raised
load_line(dict, raw) ==
    LET line == Strip(raw)
        parts == split_entry(line)
    IN  IF ~line_is_entry(line)
        THEN [dict |-> dict, wrote |-> <<>>, raised |-> FALSE]
        ELSE IF Len(parts) # 2
        THEN [dict |-> dict, wrote |-> <<>>, raised |-> TRUE]
        ELSE [dict |-> DictPut(dict, load_key_of(parts[1]), load_phoneme_of(parts[2])),
              wrote |-> <<[key |-> load_key_of(parts[1]),
                           phoneme |-> load_phoneme_of(parts[2])]>>,
              raised |-> FALSE]

\* lookup_hit without the membership test: the entry is read for every word
lookup_hit_untested(dict, key) == TRUE

\* urdu_text_to_phonemes: "if clean_word in CUSTOM_PHONEME_DICT"
lookup_hit(dict, key) == key \in DOMAIN dict

\* "CUSTOM_PHONEME_DICT[clean_word]": the phoneme, or KeyError raised
lookup_read(dict, key) ==
    IF key \in DOMAIN dict THEN [raised |-> FALSE, phoneme |-> dict[key]]
    ELSE [raised |-> TRUE, phoneme |-> <<>>]

\* select_tier with the first two branches swapped: espeak-ng is asked before the
\* dictionary is looked at
select_tier_espeak_first(clean_word, dict, espeak_enabled, dict_enabled) ==
    IF espeak_enabled THEN "espeak"
    ELSE IF clean_word \in DOMAIN dict THEN "custom"
    ELSE "rule_based"

\* the if / elif / else of the word loop of urdu_text_to_phonemes: which tier
\* resolves a word (the use_custom_dict argument is not read by the code)
select_tier(clean_word, dict, espeak_enabled, dict_enabled) ==
    IF clean_word \in DOMAIN dict THEN "custom"
    ELSE IF espeak_enabled THEN "espeak"
    ELSE "rule_based"

\* the final join and cleanup of urdu_text_to_phonemes
join_phonemes(results) == Strip(CollapseSpace(Join(results, <<" ">>)))

\* _urdu_espeak_phonemize: "result.returncode == 0 and result.stdout.strip()"
espeak_succeeded(outcome) ==
    /\ outcome.kind = "exit"
    /\ outcome.returncode = 0
    /\ Strip(outcome.stdout) # <<>>

\* _urdu_espeak_phonemize: the cleaning of a successful run's stdout
clean_espeak_output(stdout) ==
    Strip(Remove(CollapseSpace(Strip(stdout)), {"(", ")"}))

\* espeak_caught with an except clause that names the timeout only
espeak_caught_timeout_only(kind) == kind = "timeout"

\* _urdu_espeak_phonemize: "except (subprocess.TimeoutExpired, FileNotFoundError,
\* Exception)" catches every kind of exception a run raises
espeak_caught(kind) == kind \in {"timeout", "not_found", "error"}

\* tries_secondary without the test of the first run's result: the second run
\* follows every first run
tries_secondary_after_any_run(voice, status) == voice = "ur"

\* _urdu_espeak_phonemize: the run with the Hindi voice follows the run with
\* the Urdu voice that returned and did not pass the test of line 112
tries_secondary(voice, status) == voice = "ur" /\ status = "failed"

\* scan_continues with the loop test off by one: "while i <= len(text)"
scan_continues_off_by_one(scanned, pos) == pos <= Len(scanned)

\* the "while i < len(text)" test of _urdu_rule_based_phonemize
scan_continues(scanned, pos) == pos < Len(scanned)

\* scan_step with the two lookups in the other order: the one-character key is
\* tried first, the two-character key only when the character is not a key
scan_step_single_first(scanned, pos, res) ==
    LET two_char == SubSeq(scanned, pos + 1, pos + 2)
        char == scanned[pos + 1]
    IN  IF pos >= Len(scanned)
        THEN [result |-> res, i |-> pos, raised |-> TRUE]
        ELSE IF <<char>> \in DOMAIN urdu_to_ipa
        THEN [result |-> IF urdu_to_ipa[<<char>>] # <<>>
                         THEN Append(res, urdu_to_ipa[<<char>>])
                         ELSE res,
              i |-> pos + 1,
              raised |-> FALSE]
        ELSE IF pos < Len(scanned) - 1 /\ two_char \in DOMAIN urdu_to_ipa
        THEN [result |-> Append(res, urdu_to_ipa[two_char]), i |-> pos + 2, raised |-> FALSE]
        ELSE [result |-> IF IsSpace(char) THEN Append(res, <<" ">>)
                         ELSE IF IsAscii(char) THEN Append(res, <<char>>)
                         ELSE res,
              i |-> pos + 1,
              raised |-> FALSE]

\* one iteration of the scan loop of _urdu_rule_based_phonemize, at the 0-based
\* index pos; reading text[pos] beyond the end raises IndexError
scan_step(scanned, pos, res) ==
    LET two_char == SubSeq(scanned, pos + 1, pos + 2)
    IN  IF pos < Len(scanned) - 1 /\ two_char \in DOMAIN urdu_to_ipa
        THEN [result |-> Append(res, urdu_to_ipa[two_char]), i |-> pos + 2, raised |-> FALSE]
        ELSE IF pos >= Len(scanned)
        THEN [result |-> res, i |-> pos, raised |-> TRUE]
        ELSE LET char == scanned[pos + 1]
             IN  [result |->
                    IF <<char>> \in DOMAIN urdu_to_ipa
                    THEN (IF urdu_to_ipa[<<char>>] # <<>>
                          THEN Append(res, urdu_to_ipa[<<char>>])
                          ELSE res)
                    ELSE IF IsSpace(char) THEN Append(res, <<" ">>)
                    ELSE IF IsAscii(char) THEN Append(res, <<char>>)
                    ELSE res,
                  i |-> pos + 1,
                  raised |-> FALSE]

RECURSIVE Aspirate(_)
\* re.sub(r'([kɡq])([ʰ])', r'\1ʰ', phonemes)
Aspirate(s) ==
    IF s = <<>> THEN <<>>
    ELSE IF Len(s) >= 2 /\ s[1] \in {"k", "SCRIPT_G", "q"} /\ s[2] = "SMALL_H"
         THEN <<s[1], "SMALL_H">> \o Aspirate(SubSeq(s, 3, Len(s)))
    ELSE <<Head(s)>> \o Aspirate(Tail(s))

\* _apply_urdu_phonetic_rules
apply_urdu_phonetic_rules(phonemes) ==
    Strip(CollapseSpace(Aspirate(CollapseRuns(phonemes, {"a", "i", "u"}))))

\* the end of _urdu_rule_based_phonemize: ''.join(result), then the rules
finish_rule_based(res) == apply_urdu_phonetic_rules(Join(res, <<>>))

(***************************************************************************)
(* urdu_phonemizer.py: the separator step of UrduPhonemizer._phonemize     *)
(***************************************************************************)

apply_separator(phonemes, sep) ==
    IF sep # <<>>
    THEN Join(Chars(Replace(phonemes, " ", <<" ">> \o sep \o <<" ">>)), sep)
    ELSE phonemes

(***************************************************************************)
(* Bounds and inputs                                                       *)
(***************************************************************************)

\* longest text drawn from InputChars
MaxLen == 3

\* most runtime writes to the dictionary
MaxWrites == 1

\* the characters the bounded input texts are made of: a letter that is a key
\* alone and opens the two-character keys, a letter that closes one, a mapped
\* diacritic, and whitespace
InputChars == {"ALEF", "FARSI_YEH", "FATHA", " "}

BoundedTexts == UNION { [1..n -> InputChars] : n \in 0..MaxLen }

\* the words written to the dictionary at run time, one a key of its own and one
\* with a capital and a punctuation mark, and the phoneme written
WriteWords == { <<"ALEF">>, <<"A", "!">> }
WritePhonemes == { <<"x">> }

\* two texts of the __main__ blocks of the source: the greeting whose words, and
\* whose whole, are keys of the built-in dictionary, and a text in Latin letters
TestTexts ==
    { <<"ALEF", "LAM", "SEEN", "LAM", "ALEF", "MEEM", " ", "AIN", "LAM", "FARSI_YEH", "KEHEH", "MEEM">>,
      <<"p", "a", "k", "i", "s", "t", "a", "n", " ", "z", "i", "n", "d", "a", "b", "a", "d">> }

\* the marks of the "Short vowels (diacritics)" entries of urdu_to_ipa
ShortVowelMarks ==
    {"FATHA", "KASRA", "DAMMA", "FATHATAN", "KASRATAN", "DAMMATAN", "SUKUN", "SHADDA"}

\* texts with the Urdu digits and the diacritics: each digit alone, a letter
\* with each mark, and a word with a letter, a digit and a mark
MarkedTexts ==
    { <<d>> : d \in DOMAIN URDU_NUMBER_MAP }
        \cup { <<"ALEF", m>> : m \in ShortVowelMarks }
        \cup { <<"ALEF", "URDU_DIGIT_ONE", "FATHATAN">> }

\* the texts a call is made with
Texts ==
    BoundedTexts \cup TestTexts \cup WriteWords \cup DOMAIN BUILTIN_PHONEME_DICT
        \cup MarkedTexts

Separators == { <<>>, <<"|">> }

\* what one run of the espeak-ng subprocess can do
EspeakStdouts == { <<>>, <<"\n">>, <<"(", ")">>, <<" ", "a", " ", " ", "(", "b", ")", "\n">> }
EspeakOutcomes ==
    [kind : {"exit"}, returncode : {0, 1}, stdout : EspeakStdouts]
        \cup [kind : {"timeout", "not_found", "error"}, returncode : {0}, stdout : {<<>>}]

(***************************************************************************)
(* State                                                                   *)
(***************************************************************************)

VARIABLES
    CUSTOM_PHONEME_DICT,  \* the process-wide dictionary: key -> phoneme
    use_espeak,           \* UrduPhonemizer.use_espeak
    use_custom_dict,      \* UrduPhonemizer.use_custom_dict
    writes,               \* number of runtime writes to the dictionary so far
    pc,                   \* position of the running call, "idle" between calls
    call,                 \* the entry point of the running call
    text,                 \* the text the call was made with
    separator,            \* the separator the call was made with
    words,                \* urdu_text_to_phonemes: words
    word_idx,             \* index in words of the word of the current iteration
    phoneme_results,      \* urdu_text_to_phonemes: phoneme_results
    resolved,             \* per finished word: how it was resolved
    espeak_log,           \* the voices espeak-ng was run with for the current word
    scan_text,            \* _urdu_rule_based_phonemize: text
    i,                    \* _urdu_rule_based_phonemize: i
    result,               \* _urdu_rule_based_phonemize: result
    returned,             \* the value the finished call returned
    remove_diacritics,    \* normalize_urdu_text: remove_diacritics
    expand_abbrev,        \* normalize_urdu_text: expand_abbrev
    normalized,           \* the results of the successive normalize_urdu_text calls
    write_log,            \* the writes to the dictionary so far: key and phoneme stored
    load_pc,              \* position of the running load_custom_phonemes_from_file
    file_lines,           \* the lines of the file the running load has opened
    line_idx,             \* index in file_lines of the line of the next iteration
    tested_at             \* the number of writes made before the last membership test

dict_vars == <<CUSTOM_PHONEME_DICT, writes, write_log>>
load_vars == <<load_pc, file_lines, line_idx>>
self_vars == <<use_espeak, use_custom_dict>>
call_vars == <<call, text, separator>>
loop_vars == <<words, word_idx, phoneme_results, resolved>>
scan_vars == <<scan_text, i, result>>
norm_vars == <<remove_diacritics, expand_abbrev, normalized>>
vars == <<CUSTOM_PHONEME_DICT, use_espeak, use_custom_dict, writes, pc, call, text,
          separator, words, word_idx, phoneme_results, resolved, espeak_log,
          scan_text, i, result, returned, remove_diacritics, expand_abbrev, normalized,
          write_log, load_pc, file_lines, line_idx, tested_at>>

\* no call is running
NoCall ==
    /\ pc = "idle"
    /\ call = "none"
    /\ text = <<>>
    /\ separator = <<>>
    /\ words = <<>>
    /\ word_idx = 1
    /\ phoneme_results = <<>>
    /\ resolved = <<>>
    /\ tested_at = 0
    /\ espeak_log = <<>>
    /\ scan_text = <<>>
    /\ i = 0
    /\ result = <<>>
    /\ returned = <<>>

\* no load is running
NoLoad ==
    /\ load_pc = "idle"
    /\ file_lines = <<>>
    /\ line_idx = 1

\* after import of phonemizer.py and construction of one UrduPhonemizer
Init ==
    /\ CUSTOM_PHONEME_DICT = BUILTIN_PHONEME_DICT
    /\ use_espeak \in BOOLEAN
    /\ use_custom_dict \in BOOLEAN
    /\ writes = 0
    /\ write_log = <<>>
    /\ NoLoad
    /\ NoCall
    /\ remove_diacritics = FALSE
    /\ expand_abbrev = TRUE
    /\ normalized = <<>>

(***************************************************************************)
(* Operations                                                              *)
(***************************************************************************)

\* add_custom_phoneme(word, phoneme)
AddCustomPhoneme(word, phoneme) ==
    /\ CUSTOM_PHONEME_DICT' = DictPut(CUSTOM_PHONEME_DICT, add_key_of(word), phoneme)
    /\ writes' = writes + 1
    /\ write_log' = Append(write_log, [key |-> add_key_of(word), phoneme |-> phoneme])
    /\ UNCHANGED <<self_vars, pc, call_vars, loop_vars, espeak_log, scan_vars, returned>>
    /\ UNCHANGED <<load_vars, norm_vars, tested_at>>

\* load_custom_phonemes_from_file(file_path): open(file_path), which gives the
\* lines of the file or raises; FileNotFoundError is caught
LoadOpen(outcome) ==
    /\ load_pc = "idle"
    /\ load_pc' = IF outcome.kind = "ok" THEN "lines"
                  ELSE IF load_caught(outcome.kind) THEN "not_found"
                  ELSE "raised"
    /\ file_lines' = outcome.lines
    /\ line_idx' = 1
    /\ UNCHANGED <<dict_vars, self_vars, pc, call_vars, loop_vars, espeak_log, scan_vars,
                   returned, norm_vars, tested_at>>

\* load_custom_phonemes_from_file: one iteration of "for line in f"
LoadLine ==
    /\ load_pc = "lines"
    /\ line_idx <= Len(file_lines)
    /\ LET r == load_line(CUSTOM_PHONEME_DICT, file_lines[line_idx])
       IN  /\ CUSTOM_PHONEME_DICT' = r.dict
           /\ write_log' = write_log \o r.wrote
           /\ load_pc' = IF r.raised THEN "raised" ELSE "lines"
           /\ line_idx' = IF r.raised THEN line_idx ELSE line_idx + 1
    /\ UNCHANGED <<writes, file_lines, self_vars, pc, call_vars, loop_vars, espeak_log,
                   scan_vars, returned, norm_vars, tested_at>>

\* load_custom_phonemes_from_file returns: the file is exhausted, or the
\* except clause has printed that the file was not found
LoadReturn ==
    /\ \/ load_pc = "lines" /\ line_idx > Len(file_lines)
       \/ load_pc = "not_found"
    /\ load_pc' = "idle"
    /\ file_lines' = <<>>
    /\ line_idx' = 1
    /\ UNCHANGED <<dict_vars, self_vars, pc, call_vars, loop_vars, espeak_log,
                   scan_vars, returned, norm_vars, tested_at>>

\* UrduPhonemizer.phonemize(t, sep) up to the word loop of urdu_text_to_phonemes:
\* normalize_urdu_text, then preprocess_for_tts and split
Phonemize(t, sep) ==
    /\ pc = "idle"
    /\ call' = "phonemize"
    /\ text' = t
    /\ separator' = sep
    /\ words' = Split(preprocess_for_tts(normalize_urdu_text(t, FALSE, TRUE)))
    /\ word_idx' = 1
    /\ phoneme_results' = <<>>
    /\ resolved' = <<>>
    /\ pc' = "words"
    /\ UNCHANGED <<dict_vars, self_vars, espeak_log, scan_vars, returned>>
    /\ UNCHANGED <<load_vars, norm_vars, tested_at>>

\* the record kept of a finished word
Resolution(word, tier, phoneme) ==
    [word |-> word, tier |-> tier, phoneme |-> phoneme, espeak |-> espeak_log,
     in_dict |-> clean_word_of(word) \in DOMAIN CUSTOM_PHONEME_DICT]

\* "if word_phoneme: phoneme_results.append(word_phoneme)" and the next iteration
EmitWord(word, tier, phoneme) ==
    /\ phoneme_results' = IF phoneme # <<>> THEN Append(phoneme_results, phoneme)
                          ELSE phoneme_results
    /\ resolved' = Append(resolved, Resolution(word, tier, phoneme))
    /\ word_idx' = word_idx + 1
    /\ espeak_log' = <<>>
    /\ pc' = "words"
    /\ UNCHANGED words

\* entry of _urdu_rule_based_phonemize(word)
StartScan(word) ==
    /\ scan_text' = word
    /\ i' = 0
    /\ result' = <<>>
    /\ pc' = "scan"

\* one iteration of "for word in words" up to the tier that resolves the word
NextWord ==
    /\ pc = "words"
    /\ word_idx <= Len(words)
    /\ LET word == words[word_idx]
           clean_word == clean_word_of(word)
           tier == select_tier(clean_word, CUSTOM_PHONEME_DICT, use_espeak, use_custom_dict)
       IN  CASE tier = "custom" ->
                    /\ EmitWord(word, "custom", CUSTOM_PHONEME_DICT[clean_word])
                    /\ UNCHANGED scan_vars
             [] tier = "espeak" ->
                    /\ pc' = "espeak_ur"
                    /\ UNCHANGED <<loop_vars, espeak_log, scan_vars>>
             [] OTHER ->
                    /\ StartScan(word)
                    /\ UNCHANGED <<loop_vars, espeak_log>>
    /\ UNCHANGED <<dict_vars, self_vars, call_vars, returned>>
    /\ UNCHANGED <<load_vars, norm_vars, tested_at>>

\* what _urdu_espeak_phonemize does with the outcome of one run; an exception
\* the except clause does not catch leaves the call.  subprocess.run is given
\* timeout=10, so every run ends: it exits, or raises TimeoutExpired or another
\* exception
EspeakRun(voice, outcome) ==
    LET word == words[word_idx]
        status == IF outcome.kind # "exit" THEN "raised"
                  ELSE IF espeak_succeeded(outcome) THEN "ok" ELSE "failed"
        log == Append(espeak_log, voice)
        word_phoneme == IF status = "ok" THEN clean_espeak_output(outcome.stdout) ELSE <<>>
    IN  IF status = "raised" /\ ~espeak_caught(outcome.kind)
        THEN /\ espeak_log' = log
             /\ pc' = "raised"
             /\ UNCHANGED <<loop_vars, scan_vars>>
        ELSE IF tries_secondary(voice, status)
        THEN /\ espeak_log' = log
             /\ pc' = "espeak_hi"
             /\ UNCHANGED <<loop_vars, scan_vars>>
        ELSE IF Strip(word_phoneme) # <<>>
        THEN /\ resolved' = Append(resolved,
                                   [Resolution(word, "espeak", word_phoneme) EXCEPT !.espeak = log])
             /\ phoneme_results' = Append(phoneme_results, word_phoneme)
             /\ word_idx' = word_idx + 1
             /\ espeak_log' = <<>>
             /\ pc' = "words"
             /\ UNCHANGED <<words, scan_vars>>
        ELSE /\ espeak_log' = log
             /\ StartScan(word)
             /\ UNCHANGED loop_vars

\* _urdu_espeak_phonemize: the run with the Urdu voice
EspeakPrimary(outcome) ==
    /\ pc = "espeak_ur"
    /\ EspeakRun("ur", outcome)
    /\ UNCHANGED <<dict_vars, self_vars, call_vars, returned>>
    /\ UNCHANGED <<load_vars, norm_vars, tested_at>>

\* _urdu_espeak_phonemize: the run with the Hindi voice
EspeakSecondary(outcome) ==
    /\ pc = "espeak_hi"
    /\ EspeakRun("hi", outcome)
    /\ UNCHANGED <<dict_vars, self_vars, call_vars, returned>>
    /\ UNCHANGED <<load_vars, norm_vars, tested_at>>

\* a direct call _urdu_rule_based_phonemize(t)
RuleBasedPhonemize(t) ==
    /\ pc = "idle"
    /\ call' = "rule_based"
    /\ text' = t
    /\ StartScan(t)
    /\ UNCHANGED <<dict_vars, self_vars, separator, loop_vars, espeak_log, returned>>
    /\ UNCHANGED <<load_vars, norm_vars, tested_at>>

\* one iteration of the scan loop
ScanStep ==
    /\ pc = "scan"
    /\ scan_continues(scan_text, i)
    /\ LET s == scan_step(scan_text, i, result)
       IN  /\ i' = s.i
           /\ result' = s.result
           /\ pc' = IF s.raised THEN "raised" ELSE "scan"
    /\ UNCHANGED <<dict_vars, self_vars, call_vars, loop_vars, espeak_log, scan_text, returned>>
    /\ UNCHANGED <<load_vars, norm_vars, tested_at>>

\* the scan loop has ended: post-processing and return to the caller
ScanFinish ==
    /\ pc = "scan"
    /\ ~scan_continues(scan_text, i)
    /\ LET phonemes == finish_rule_based(result)
       IN  IF call = "rule_based"
           THEN /\ returned' = phonemes
                /\ pc' = "returned"
                /\ UNCHANGED <<loop_vars, espeak_log>>
           ELSE /\ EmitWord(words[word_idx], "rule_based", phonemes)
                /\ UNCHANGED returned
    /\ UNCHANGED <<dict_vars, self_vars, call_vars, scan_vars>>
    /\ UNCHANGED <<load_vars, norm_vars, tested_at>>

\* the word loop has ended: join, cleanup, and the separator step of _phonemize
Assemble ==
    /\ pc = "words"
    /\ word_idx > Len(words)
    /\ returned' = apply_separator(join_phonemes(phoneme_results), separator)
    /\ pc' = "returned"
    /\ UNCHANGED <<dict_vars, self_vars, call_vars, loop_vars, espeak_log, scan_vars>>
    /\ UNCHANGED <<load_vars, norm_vars, tested_at>>

\* the caller has the value; the locals of the call are gone and the next call
\* can start
Return ==
    /\ pc = "returned"
    /\ pc' = "idle"
    /\ call' = "none"
    /\ text' = <<>>
    /\ separator' = <<>>
    /\ words' = <<>>
    /\ word_idx' = 1
    /\ phoneme_results' = <<>>
    /\ resolved' = <<>>
    /\ espeak_log' = <<>>
    /\ scan_text' = <<>>
    /\ i' = 0
    /\ result' = <<>>
    /\ returned' = <<>>
    /\ tested_at' = 0
    /\ UNCHANGED <<dict_vars, self_vars>>
    /\ UNCHANGED <<load_vars, norm_vars>>

Next ==
    \/ \E word \in WriteWords, phoneme \in WritePhonemes :
          pc = "idle" /\ writes < MaxWrites /\ AddCustomPhoneme(word, phoneme)
    \/ \E t \in Texts, sep \in Separators : Phonemize(t, sep)
    \/ \E t \in Texts : RuleBasedPhonemize(t)
    \/ NextWord
    \/ \E outcome \in EspeakOutcomes : EspeakPrimary(outcome)
    \/ \E outcome \in EspeakOutcomes : EspeakSecondary(outcome)
    \/ ScanStep
    \/ ScanFinish
    \/ Assemble
    \/ Return

Spec == Init /\ [][Next]_vars


(***************************************************************************)
(* The dictionary written by insertions and file loads                     *)
(***************************************************************************)

\* most writes to the dictionary plus lines of loaded files
MaxLog == 3

\* the lines of the loaded files: an entry for a key add_custom_phoneme also
\* writes, an entry with capitals and padding, an entry for a built-in key with
\* a second delimiter, a blank line, and a line without the delimiter
FileLines ==
    { <<"ALEF", "|", "y">>,
      <<" ", "A", "!", " ", "|", " ", "z", " ">>,
      <<"DAL", "FARSI_YEH", "NOON", "|", "y", "|", "z">>,
      <<" ">>,
      <<"ALEF", " ", "y">> }

Files == UNION { [1..n -> FileLines] : n \in 0..MaxLog }

\* what open(file_path) can do: give the lines of an existing file, or raise
\* FileNotFoundError or another OSError
OpenOutcomes ==
    [kind : {"ok"}, lines : Files] \cup [kind : {"not_found", "denied"}, lines : {<<>>}]

InitDict ==
    /\ CUSTOM_PHONEME_DICT = BUILTIN_PHONEME_DICT
    /\ use_espeak = TRUE
    /\ use_custom_dict = TRUE
    /\ writes = 0
    /\ write_log = <<>>
    /\ NoLoad
    /\ NoCall
    /\ remove_diacritics = FALSE
    /\ expand_abbrev = TRUE
    /\ normalized = <<>>

\* insertions and loads of a single-threaded caller, one after the other
NextDict ==
    \/ \E word \in WriteWords, phoneme \in WritePhonemes :
          load_pc = "idle" /\ Len(write_log) < MaxLog /\ AddCustomPhoneme(word, phoneme)
    \/ \E outcome \in OpenOutcomes :
          Len(write_log) + Len(outcome.lines) <= MaxLog /\ LoadOpen(outcome)
    \/ LoadLine
    \/ LoadReturn

SpecDict == InitDict /\ [][NextDict]_vars

(***************************************************************************)
(* A phonemize call running while another thread writes the dictionary     *)
(***************************************************************************)

\* most writes to the dictionary plus lines of loaded files while calls run
MaxConcLog == 2

\* the texts of the concurrent calls: a word that is a key only once written, a
\* word that is a built-in key a file line overwrites, and both
ConcTexts ==
    { <<"ALEF">>,
      <<"DAL", "FARSI_YEH", "NOON">>,
      <<"ALEF", " ", "DAL", "FARSI_YEH", "NOON">> }

\* urdu_text_to_phonemes: the membership test of line 74 as a step of its own.
\* On a hit the call stands before the read of line 75; on a miss it goes on
\* to the tiers below as in NextWord
LookupTest ==
    /\ pc = "words"
    /\ word_idx <= Len(words)
    /\ IF lookup_hit(CUSTOM_PHONEME_DICT, clean_word_of(words[word_idx]))
       THEN /\ pc' = "dict_read"
            /\ tested_at' = Len(write_log)
            /\ UNCHANGED <<dict_vars, self_vars, call_vars, loop_vars, espeak_log,
                           scan_vars, returned, load_vars, norm_vars>>
       ELSE NextWord

\* urdu_text_to_phonemes: the read of line 75, which raises KeyError when the
\* key is not in the dictionary
LookupRead ==
    /\ pc = "dict_read"
    /\ LET word == words[word_idx]
           r == lookup_read(CUSTOM_PHONEME_DICT, clean_word_of(word))
       IN  IF r.raised
           THEN /\ pc' = "raised"
                /\ UNCHANGED <<loop_vars, espeak_log>>
           ELSE EmitWord(word, "custom", r.phoneme)
    /\ UNCHANGED <<dict_vars, self_vars, call_vars, scan_vars, returned, load_vars,
                   norm_vars, tested_at>>

InitConc ==
    /\ CUSTOM_PHONEME_DICT = BUILTIN_PHONEME_DICT
    /\ use_espeak = FALSE
    /\ use_custom_dict = TRUE
    /\ writes = 0
    /\ write_log = <<>>
    /\ NoLoad
    /\ NoCall
    /\ remove_diacritics = FALSE
    /\ expand_abbrev = TRUE
    /\ normalized = <<>>

\* one thread makes phonemize calls, another inserts and loads; the steps of
\* the two interleave in any order
NextConc ==
    \/ \E t \in ConcTexts : Phonemize(t, <<>>)
    \/ LookupTest
    \/ LookupRead
    \/ ScanStep
    \/ ScanFinish
    \/ Assemble
    \/ Return
    \/ \E word \in WriteWords, phoneme \in WritePhonemes :
          load_pc = "idle" /\ Len(write_log) < MaxConcLog /\ AddCustomPhoneme(word, phoneme)
    \/ \E outcome \in OpenOutcomes :
          Len(write_log) + Len(outcome.lines) <= MaxConcLog /\ LoadOpen(outcome)
    \/ LoadLine
    \/ LoadReturn

SpecConc == InitConc /\ [][NextConc]_vars
(***************************************************************************)
(* The normalizer called on its own, twice in a row                        *)
(***************************************************************************)

\* longest text given to normalize_urdu_text
MaxNormLen == 3

\* the characters of those texts: terminal punctuation that collapses, a comma
\* that does not, whitespace, the letters of the abbreviation MEEM SEEN, a
\* diacritic and an Urdu digit
NormChars == {"FULL_STOP", "!", "COMMA", " ", "MEEM", "SEEN", "FATHA", "URDU_DIGIT_ONE"}

NormTexts == UNION { [1..n -> NormChars] : n \in 0..MaxNormLen }

InitNorm ==
    /\ CUSTOM_PHONEME_DICT = BUILTIN_PHONEME_DICT
    /\ use_espeak = TRUE
    /\ use_custom_dict = TRUE
    /\ writes = 0
    /\ write_log = <<>>
    /\ NoLoad
    /\ NoCall
    /\ remove_diacritics \in BOOLEAN
    /\ expand_abbrev \in BOOLEAN
    /\ normalized = <<>>

\* normalize_urdu_text(t, remove_diacritics, expand_abbrev)
Normalize(t) ==
    /\ call = "none"
    /\ normalized = <<>>
    /\ text' = t
    /\ normalized' = <<normalize_urdu_text(t, remove_diacritics, expand_abbrev)>>
    /\ UNCHANGED <<dict_vars, self_vars, pc, call, separator, loop_vars, espeak_log,
                   scan_vars, returned, remove_diacritics, expand_abbrev, load_vars, tested_at>>

\* normalize_urdu_text called on the result of the previous call, same options
NormalizeAgain ==
    /\ Len(normalized) = 1
    /\ normalized' = Append(normalized,
                            normalize_urdu_text(normalized[1], remove_diacritics, expand_abbrev))
    /\ UNCHANGED <<dict_vars, self_vars, pc, call_vars, loop_vars, espeak_log,
                   scan_vars, returned, remove_diacritics, expand_abbrev, load_vars, tested_at>>

\* the texts given to expand_abbreviations: an abbreviation of the table with
\* no, one or two marks after it, with a mark before it, and followed by a word
\* that is no abbreviation
AbbrevTexts ==
    LET abbrev == <<"MEEM", "SEEN">>
        marks == {<<>>} \cup { <<m>> : m \in PunctChars }
                        \cup { <<m, n>> : m \in PunctChars, n \in PunctChars }
    IN  { abbrev \o p : p \in marks }
            \cup { <<m>> \o abbrev : m \in PunctChars }
            \cup { abbrev \o p \o <<" ", "SEEN">> \o r : p \in marks, r \in marks }

\* a direct call expand_abbreviations(t)
ExpandAbbreviations(t) ==
    /\ call = "none"
    /\ normalized = <<>>
    /\ call' = "expand_abbreviations"
    /\ text' = t
    /\ returned' = expand_abbreviations(t)
    /\ UNCHANGED <<dict_vars, self_vars, pc, separator, loop_vars, espeak_log, scan_vars,
                   norm_vars, load_vars, tested_at>>

NextNorm ==
    \/ \E t \in NormTexts : Normalize(t)
    \/ NormalizeAgain
    \/ \E t \in AbbrevTexts : ExpandAbbreviations(t)

SpecNorm == InitNorm /\ [][NextNorm]_vars

(***************************************************************************)
(* Properties                                                              *)
(***************************************************************************)

\* the bare key of the word the running iteration of the word loop is about
CurrentKey == clean_word_of(words[word_idx])

\* C1: with dictionary use enabled, every word whose bare key is in the
\* dictionary is resolved by the dictionary with exactly the entry's phoneme,
\* which is what the word contributes to the phoneme stream, and espeak-ng is
\* never run for that word, whether espeak-ng is enabled or not.
C1_DictionaryPrecedence ==
    use_custom_dict =>
        /\ \A k \in 1..Len(resolved) :
              resolved[k].in_dict =>
                  /\ resolved[k].tier = "custom"
                  /\ resolved[k].phoneme
                        = CUSTOM_PHONEME_DICT[clean_word_of(resolved[k].word)]
                  /\ resolved[k].espeak = <<>>
        /\ (pc \in {"espeak_ur", "espeak_hi"} \/ espeak_log # <<>>)
              => CurrentKey \notin DOMAIN CUSTOM_PHONEME_DICT
        /\ (pc = "scan" /\ call = "phonemize")
              => CurrentKey \notin DOMAIN CUSTOM_PHONEME_DICT

\* a finished call, espeak-ng enabled, in which a word written to the dictionary
\* at run time was resolved by the dictionary next to a word that was not
C1_Witness ==
    /\ pc = "returned"
    /\ use_custom_dict
    /\ use_espeak
    /\ \E k \in 1..Len(resolved) :
          /\ resolved[k].in_dict
          /\ resolved[k].tier = "custom"
          /\ resolved[k].phoneme \in WritePhonemes
    /\ \E k \in 1..Len(resolved) : ~resolved[k].in_dict

\* C2: with use_custom_dict false no word is resolved by the dictionary: every
\* word goes to espeak-ng or to the rule-based transliterator.
C2_DictionaryGatedByOption ==
    ~use_custom_dict =>
        \A k \in 1..Len(resolved) : resolved[k].tier \in {"espeak", "rule_based"}

\* C3: with the dictionary and espeak-ng both disabled, phonemize returns a
\* non-empty string for every text holding a character that is a key of the
\* grapheme table.
C3_FallbackNonEmpty ==
    ( /\ pc = "returned"
      /\ call = "phonemize"
      /\ ~use_custom_dict
      /\ ~use_espeak
      /\ \E k \in 1..Len(text) : <<text[k]>> \in DOMAIN urdu_to_ipa )
        => returned # <<>>

\* the entry of _urdu_rule_based_phonemize for the word of the running iteration,
\* nothing emitted for the word yet
FallsToRuleBased ==
    /\ pc' = "scan"
    /\ scan_text' = words[word_idx]
    /\ i' = 0
    /\ result' = <<>>
    /\ UNCHANGED <<words, word_idx, phoneme_results>>

\* C4: whatever a run of espeak-ng does, the call does not raise; a run that
\* raises, and a second run without success, make _urdu_espeak_phonemize return
\* the empty string, on which urdu_text_to_phonemes enters the rule-based
\* transliterator for that word; a first run without success leads to the
\* second run; and a word for which espeak-ng was run is resolved by espeak-ng
\* with a non-empty phoneme or by the rule-based transliterator.
C4_EspeakFailureAbsorbed ==
    [][ /\ pc' # "raised"
        /\ pc \in {"espeak_ur", "espeak_hi"} =>
              \A o \in EspeakOutcomes :
                  /\ (EspeakPrimary(o) /\ o.kind # "exit") => FallsToRuleBased
                  /\ (EspeakPrimary(o) /\ o.kind = "exit" /\ ~espeak_succeeded(o))
                        => (pc' = "espeak_hi" /\ UNCHANGED loop_vars)
                  /\ (EspeakSecondary(o) /\ ~espeak_succeeded(o)) => FallsToRuleBased
        /\ resolved' # resolved =>
              \A k \in 1..Len(resolved') :
                  resolved'[k].espeak # <<>> =>
                      \/ resolved'[k].tier = "espeak" /\ Strip(resolved'[k].phoneme) # <<>>
                      \/ resolved'[k].tier = "rule_based"
      ]_vars

\* a finished call in which a word went through both espeak-ng runs and was
\* resolved by the rule-based transliterator
C4_Witness ==
    /\ pc = "returned"
    /\ \E k \in 1..Len(resolved) :
          /\ resolved[k].espeak = <<"ur", "hi">>
          /\ resolved[k].tier = "rule_based"
          /\ resolved[k].phoneme # <<>>

\* the steps a call still has to take are at most Rank
RECURSIVE RestCost(_)
RestCost(k) == IF k > Len(words) THEN 0 ELSE Len(words[k]) + 4 + RestCost(k + 1)

Rank ==
    CASE pc = "words" -> RestCost(word_idx) + 1
      [] pc = "espeak_ur" -> RestCost(word_idx)
      [] pc = "espeak_hi" -> RestCost(word_idx) - 1
      [] pc = "scan" /\ call = "phonemize" ->
            RestCost(word_idx + 1) + (Len(scan_text) - i) + 2
      [] pc = "scan" /\ call # "phonemize" -> (Len(scan_text) - i) + 1
      [] OTHER -> 0

\* C5: no step of a call raises; every iteration of the scan loop moves the scan
\* index forward and not beyond the end of the text; every step of a call
\* lowers Rank, which is never negative, so that the call returns; and a call
\* with the empty text returns the empty string.
C5_Totality ==
    [][ /\ pc' # "raised"
        /\ (pc = "scan" /\ pc' = "scan") => (i' > i /\ i' <= Len(scan_text))
        /\ pc \in {"words", "espeak_ur", "espeak_hi", "scan"} => (Rank' < Rank /\ Rank' >= 0)
        /\ (pc' = "returned" /\ text' = <<>>) => returned' = <<>>
      ]_vars

\* phonemize of the empty text with the separator "|" has returned the empty
\* string
C5_Witness ==
    /\ pc = "returned"
    /\ call = "phonemize"
    /\ text = <<>>
    /\ separator = <<"|">>
    /\ returned = <<>>

\* C6: a word written with add_custom_phoneme(w, p) is found again: phonemize
\* of the single word w, with the dictionary enabled, resolves w through the
\* dictionary to the phoneme stored by the write.
C6_SameKeyOnWriteAndLookup ==
    \A w \in WriteWords :
        ( /\ pc = "returned"
          /\ call = "phonemize"
          /\ use_custom_dict
          /\ text = w
          /\ add_key_of(w) \in DOMAIN CUSTOM_PHONEME_DICT )
            => /\ Len(resolved) = 1
               /\ resolved[1].tier = "custom"
               /\ resolved[1].phoneme = CUSTOM_PHONEME_DICT[add_key_of(w)]

\* the two-word phrase that is a key of the built-in dictionary
Phrase ==
    <<"ALEF", "LAM", "SEEN", "LAM", "ALEF", "MEEM", " ", "AIN", "LAM", "FARSI_YEH", "KEHEH", "MEEM">>

\* C7: with the dictionary enabled and holding an entry for the phrase,
\* phonemize of the phrase with separator "|" returns the phoneme string of
\* that entry with "|" between its symbols.
C7_PhraseLookup ==
    ( /\ pc = "returned"
      /\ call = "phonemize"
      /\ use_custom_dict
      /\ text = Phrase
      /\ separator = <<"|">>
      /\ Phrase \in DOMAIN CUSTOM_PHONEME_DICT )
        => returned = Join(Chars(CUSTOM_PHONEME_DICT[Phrase]), <<"|">>)

\* C8: with a non-empty separator the result is the characters of the phoneme
\* stream joined by the separator, one token per character, an inter-word space
\* being one such token.
C8_SeparatorPerCharacter ==
    (pc = "returned" /\ call = "phonemize" /\ separator # <<>>)
        => returned = Join(Chars(join_phonemes(phoneme_results)), separator)

C10_LongestMatchFirst ==
    [][ (pc = "scan" /\ pc' = "scan" /\ i' # i) =>
            LET two_here == /\ i + 2 <= Len(scan_text)
                            /\ SubSeq(scan_text, i + 1, i + 2) \in DOMAIN urdu_to_ipa
                char == scan_text[i + 1]
            IN  IF two_here
                THEN /\ i' = i + 2
                     /\ result' = Append(result, urdu_to_ipa[SubSeq(scan_text, i + 1, i + 2)])
                ELSE /\ i' = i + 1
                     /\ (<<char>> \in DOMAIN urdu_to_ipa /\ urdu_to_ipa[<<char>>] # <<>>)
                            => result' = Append(result, urdu_to_ipa[<<char>>])
                     /\ (<<char>> \in DOMAIN urdu_to_ipa /\ urdu_to_ipa[<<char>>] = <<>>)
                            => result' = result
      ]_vars

\* the scan has passed a two-character key whose characters are both keys on
\* their own, and emitted the phoneme of the two-character key
C10_Witness ==
    /\ pc = "scan"
    /\ i = 2
    /\ Len(scan_text) >= 2
    /\ SubSeq(scan_text, 1, 2) = <<"ALEF", "FARSI_YEH">>
    /\ <<"ALEF">> \in DOMAIN urdu_to_ipa
    /\ <<"FARSI_YEH">> \in DOMAIN urdu_to_ipa
    /\ result = << urdu_to_ipa[<<"ALEF", "FARSI_YEH">>] >>


\* the index in the log of the most recent write to the key, 0 when the key was
\* never written
LastWriteTo(key) ==
    LET ns == { n \in 1..Len(write_log) : write_log[n].key = key }
    IN  IF ns = {} THEN 0 ELSE CHOOSE n \in ns : \A m \in ns : m <= n

\* C11: after any sequence of insertions and file loads, the keys of the
\* dictionary are the built-in keys and every key written since, none removed,
\* each with one phoneme: that of the most recent write to the key, a later
\* line of a file overriding an earlier one, and the built-in phoneme for a key
\* never written.
C11_LastWriteWins ==
    /\ DOMAIN CUSTOM_PHONEME_DICT =
           DOMAIN BUILTIN_PHONEME_DICT \cup { write_log[n].key : n \in 1..Len(write_log) }
    /\ \A key \in DOMAIN CUSTOM_PHONEME_DICT :
           CUSTOM_PHONEME_DICT[key] =
               IF LastWriteTo(key) = 0 THEN BUILTIN_PHONEME_DICT[key]
               ELSE write_log[LastWriteTo(key)].phoneme

\* a key was written twice with different phonemes, and a built-in key was
\* overwritten by a line of a file
C11_Witness ==
    /\ load_pc = "idle"
    /\ \E m, n \in 1..Len(write_log) :
           /\ m < n
           /\ write_log[m].key = write_log[n].key
           /\ write_log[m].phoneme # write_log[n].phoneme
           /\ LastWriteTo(write_log[n].key) = n
           /\ CUSTOM_PHONEME_DICT[write_log[n].key] = write_log[n].phoneme
    /\ \E n \in 1..Len(write_log) :
           /\ write_log[n].key \in DOMAIN BUILTIN_PHONEME_DICT
           /\ CUSTOM_PHONEME_DICT[write_log[n].key] # BUILTIN_PHONEME_DICT[write_log[n].key]

\* a line that is blank or has no delimiter
IsSkippedLine(raw) == Strip(raw) = <<>> \/ ~Contains(raw, "|")

\* C12: a load from a missing source leaves the dictionary as it was and
\* returns without raising; in a load from an existing source a line that is
\* blank or has no delimiter leaves the dictionary as it was and the load goes
\* on with the next line; and a line changes no entry but the one it names.
C12_LoadFrame ==
    [][ /\ \A outcome \in OpenOutcomes :
               (LoadOpen(outcome) /\ outcome.kind = "not_found") =>
                   /\ CUSTOM_PHONEME_DICT' = CUSTOM_PHONEME_DICT
                   /\ load_pc' = "not_found"
        /\ load_pc = "not_found" =>
               /\ CUSTOM_PHONEME_DICT' = CUSTOM_PHONEME_DICT
               /\ load_pc' = "idle"
        /\ (load_pc = "lines" /\ line_idx <= Len(file_lines)) =>
               LET raw == file_lines[line_idx]
               IN  /\ IsSkippedLine(raw) =>
                          /\ CUSTOM_PHONEME_DICT' = CUSTOM_PHONEME_DICT
                          /\ load_pc' = "lines"
                          /\ line_idx' = line_idx + 1
                   /\ \A key \in DOMAIN CUSTOM_PHONEME_DICT' :
                          (\/ key \notin DOMAIN CUSTOM_PHONEME_DICT
                           \/ CUSTOM_PHONEME_DICT'[key] # CUSTOM_PHONEME_DICT[key]) =>
                              /\ ~IsSkippedLine(raw)
                              /\ key = load_key_of(split_entry(Strip(raw))[1])
      ]_vars

\* a load has skipped a blank line and a line without the delimiter and has
\* then written the entry of the line that follows them
C12_Witness ==
    /\ load_pc = "lines"
    /\ Len(file_lines) = 3
    /\ line_idx = 4
    /\ Strip(file_lines[1]) = <<>>
    /\ ~Contains(file_lines[2], "|")
    /\ write_log = <<[key |-> <<"a", "!">>, phoneme |-> <<"z">>]>>
    /\ CUSTOM_PHONEME_DICT[<<"a", "!">>] = <<"z">>

\* the voices espeak-ng can have been run with for one word
VoiceSequences == { <<>>, <<"ur">>, <<"ur", "hi">> }

\* C13: for one word espeak-ng is run at most twice, first with the Urdu voice
\* and then at most once with the Hindi voice; the Hindi run follows only an
\* Urdu run that exited with a non-zero code or with blank output, never one
\* that succeeded or raised; and every run ends, so each run is followed at
\* once by the second run, by the word loop with the result, or by the
\* rule-based transliterator with the empty result.
C13_RetryProtocol ==
    [][ /\ pc = "espeak_ur" => espeak_log = <<>> /\ espeak_log' \in {<<>>, <<"ur">>}
        /\ pc = "espeak_hi" => espeak_log = <<"ur">> /\ pc' \in {"words", "scan"}
        /\ pc' = "espeak_hi" =>
               /\ pc = "espeak_ur"
               /\ \A o \in EspeakOutcomes :
                      EspeakPrimary(o) =>
                          /\ o.kind = "exit"
                          /\ o.returncode # 0 \/ Strip(o.stdout) = <<>>
        /\ pc = "espeak_ur" => pc' \in {"espeak_hi", "words", "scan"}
        /\ \A k \in 1..Len(resolved') : resolved'[k].espeak \in VoiceSequences
      ]_vars

\* a word for which the Urdu run exited without success and the Hindi run
\* then gave the phoneme
C13_Witness ==
    \E k \in 1..Len(resolved) :
        /\ resolved[k].espeak = <<"ur", "hi">>
        /\ resolved[k].tier = "espeak"
        /\ resolved[k].phoneme # <<>>

\* the phoneme of the key after the first n writes of the log
ValueAt(key, n) ==
    LET ms == { m \in 1..n : write_log[m].key = key }
    IN  IF ms = {} THEN BUILTIN_PHONEME_DICT[key]
        ELSE write_log[CHOOSE m \in ms : \A j \in ms : j <= m].phoneme

\* C14: with insertions and loads interleaved at any point of a phonemize call,
\* no step of the call raises: the key found by the membership test is still
\* in the dictionary at the read, and the read returns the phoneme the key had
\* at the test or one that a write stored for the key since; every word the
\* dictionary resolves has its key in the dictionary at the read.
C14_ConcurrentLookup ==
    [][ /\ pc' # "raised"
        /\ (pc = "dict_read" /\ pc' # "dict_read") =>
               LET key == clean_word_of(words[word_idx])
               IN  /\ key \in DOMAIN CUSTOM_PHONEME_DICT
                   /\ Len(resolved') = Len(resolved) + 1
                   /\ resolved'[Len(resolved')].tier = "custom"
                   /\ resolved'[Len(resolved')].in_dict
                   /\ resolved'[Len(resolved')].phoneme \in
                          { ValueAt(key, n) : n \in tested_at..Len(write_log) }
        /\ \A k \in 1..Len(resolved') : resolved'[k].tier = "custom" => resolved'[k].in_dict
      ]_vars

\* a lookup whose membership test came before the write that stored the
\* phoneme its read returned
C14_Witness ==
    /\ pc = "words"
    /\ Len(resolved) = 1
    /\ resolved[1].tier = "custom"
    /\ LET key == clean_word_of(resolved[1].word)
       IN  /\ tested_at < LastWriteTo(key)
           /\ resolved[1].phoneme = write_log[LastWriteTo(key)].phoneme
           /\ resolved[1].phoneme # ValueAt(key, tested_at)

\* the marks at the end of a word
TrailingPunctuation(word) ==
    SubSeq(word, Len(DropTrailing(word, PunctChars)) + 1, Len(word))

\* C15: expand_abbreviations turns every word that is an abbreviation of the
\* table followed by punctuation marks into the expansion followed by all of
\* those marks, in their order, and gives as many words as it was given.
C15_AbbreviationKeepsPunctuation ==
    call = "expand_abbreviations" =>
        LET given == Split(text)
            out == Split(returned)
        IN  /\ Len(out) = Len(given)
            /\ \A k \in 1..Len(given) :
                   LET stem == DropTrailing(given[k], PunctChars)
                   IN  stem \in DOMAIN URDU_ABBREVIATIONS =>
                           out[k] = URDU_ABBREVIATIONS[stem] \o TrailingPunctuation(given[k])

\* the entries of urdu_to_ipa for the Urdu digits and for the diacritics
DigitAndMarkEntries ==
    { key \in DOMAIN urdu_to_ipa :
          Len(key) = 1 /\ key[1] \in DOMAIN URDU_NUMBER_MAP \cup ShortVowelMarks }

LatinDigits == { URDU_NUMBER_MAP[d] : d \in DOMAIN URDU_NUMBER_MAP }

\* the digits of a text in their order, the Urdu ones as Latin digits
DigitsOf(s) ==
    LET ds == SelectSeq(s, LAMBDA c : c \in LatinDigits \cup DOMAIN URDU_NUMBER_MAP)
    IN  [k \in 1..Len(ds) |-> IF ds[k] \in LatinDigits THEN ds[k] ELSE URDU_NUMBER_MAP[ds[k]]]

=============================================================================
